---- MODULE Spec2Model ----
(***************************************************************************)
(* A model of src/app.py: scrape_punjabipedia_definitions(word) and the    *)
(* rendering of its result.                                                *)
(*                                                                         *)
(* Text is a sequence of one-character strings.  The parsed document is a  *)
(* sequence of element nodes in document (pre-)order; every node names its *)
(* parent (0 is the document itself), so node ids grow in document order.  *)
(* A node carries its own text node (placed before its child elements);    *)
(* an h1 may carry a <small> child with its text.                          *)
(***************************************************************************)
EXTENDS Naturals, Sequences, FiniteSets

VARIABLES word, page, pc, status, main_content, definition_headers, hIdx,
          current_element, definition_paragraphs, source_text,
          definition_texts, pIdx, definition_text, final_definitions,
          result, branch

vars == <<word, page, pc, status, main_content, definition_headers, hIdx,
          current_element, definition_paragraphs, source_text,
          definition_texts, pIdx, definition_text, final_definitions,
          result, branch>>

(***************************************************************************)
(* Characters                                                              *)
(***************************************************************************)
\* str.strip() and the regex class \s
Whitespace == {" ", "\n"}

\* the regex class [\.,—:] of line 125; "--" stands for the em-dash
Separators == {".", ",", "--", ":"}

\* re.IGNORECASE compares case-folded characters
Lower(c) == IF c = "A" THEN "a" ELSE IF c = "B" THEN "b" ELSE c

\* the literal label of line 112; "L" stands for the Gurmukhi word for "source"
SourceLabel == <<"L", " ", ":">>

(***************************************************************************)
(* String functions                                                        *)
(***************************************************************************)
RECURSIVE LStrip(_)
LStrip(s) == IF s # <<>> /\ Head(s) \in Whitespace THEN LStrip(Tail(s)) ELSE s

RECURSIVE RStrip(_)
RStrip(s) ==
    IF s # <<>> /\ s[Len(s)] \in Whitespace
    THEN RStrip(SubSeq(s, 1, Len(s) - 1))
    ELSE s

\* str.strip()
Strip(s) == RStrip(LStrip(s))

IsPrefixAt(s, i, t) ==
    /\ i + Len(t) - 1 <= Len(s)
    /\ \A k \in 1..Len(t) : s[i + k - 1] = t[k]

\* str.replace(old, ''): every non-overlapping occurrence, left to right
RECURSIVE ReplaceFrom(_, _, _)
ReplaceFrom(s, i, old) ==
    IF i > Len(s) THEN <<>>
    ELSE IF old # <<>> /\ IsPrefixAt(s, i, old)
         THEN ReplaceFrom(s, i + Len(old), old)
         ELSE <<s[i]>> \o ReplaceFrom(s, i + 1, old)

Replace(s, old) == ReplaceFrom(s, 1, old)

\* index of the first "]" at or after i, 0 when there is none
RECURSIVE NextClose(_, _)
NextClose(s, i) ==
    IF i > Len(s) THEN 0
    ELSE IF s[i] = "]" THEN i
    ELSE NextClose(s, i + 1)

\* one match of \[.*?\] at i: the first "]" after the "[", and '.' does not
\* match a newline
BracketMatchEnd(s, i) ==
    IF s[i] # "["
    THEN 0
    ELSE LET j == NextClose(s, i + 1)
         IN  IF j # 0 /\ \A k \in (i + 1)..(j - 1) : s[k] # "\n" THEN j ELSE 0

\* re.sub(r'\[.*?\]', '', s)
RECURSIVE SubBracketsFrom(_, _)
SubBracketsFrom(s, i) ==
    IF i > Len(s) THEN <<>>
    ELSE LET j == BracketMatchEnd(s, i)
         IN  IF j # 0
             THEN SubBracketsFrom(s, j + 1)
             ELSE <<s[i]>> \o SubBracketsFrom(s, i + 1)

SubBrackets(s) == SubBracketsFrom(s, 1)

StartsWithCI(s, w) ==
    /\ Len(w) <= Len(s)
    /\ \A k \in 1..Len(w) : Lower(s[k]) = Lower(w[k])

\* re.sub(rf'^{re.escape(word)}\s*[\.,—:]?', '', s, flags=re.IGNORECASE)
SubLeadingWord(s, w) ==
    IF StartsWithCI(s, w)
    THEN LET rest == LStrip(SubSeq(s, Len(w) + 1, Len(s)))
         IN  IF rest # <<>> /\ Head(rest) \in Separators THEN Tail(rest) ELSE rest
    ELSE s

\* ' '.join(pieces)
RECURSIVE JoinSpace(_)
JoinSpace(pieces) ==
    IF pieces = <<>> THEN <<>>
    ELSE IF Len(pieces) = 1 THEN pieces[1]
    ELSE pieces[1] \o <<" ">> \o JoinSpace(Tail(pieces))

(***************************************************************************)
(* The parsed document                                                     *)
(***************************************************************************)
None == 0

MkNode(k, par) ==
    [name |-> k.name, cls |-> k.cls, hasSmall |-> k.hasSmall,
     small |-> k.small, text |-> k.text, parent |-> par]

RECURSIVE IsAncestor(_, _, _)
IsAncestor(pg, a, d) ==
    /\ d # None
    /\ pg[d].parent # None
    /\ (pg[d].parent = a \/ IsAncestor(pg, a, pg[d].parent))

\* an ascending sequence of the members of a set of node ids
RECURSIVE SortedSeq(_)
SortedSeq(S) ==
    IF S = {} THEN <<>>
    ELSE LET m == CHOOSE x \in S : \A y \in S : x <= y
         IN  <<m>> \o SortedSeq(S \ {m})

\* tag.find_all(name): the descendants with that name, in document order
FindAll(pg, n, nm) ==
    SortedSeq({d \in 1..Len(pg) : pg[d].name = nm /\ IsAncestor(pg, n, d)})

\* soup.find('div', class_=c): the first div of the document with that class
FindDiv(pg, c) ==
    LET S == {d \in 1..Len(pg) : pg[d].name = "div" /\ pg[d].cls = c}
    IN  IF S = {} THEN None ELSE CHOOSE x \in S : \A y \in S : x <= y

\* soup.find('body')
FindBody(pg) ==
    LET S == {d \in 1..Len(pg) : pg[d].name = "body"}
    IN  IF S = {} THEN None ELSE CHOOSE x \in S : \A y \in S : x <= y

\* tag.find_next_sibling(): the next element with the same parent
FindNextSibling(pg, n) ==
    LET S == {d \in (n + 1)..Len(pg) : pg[d].parent = pg[n].parent}
    IN  IF S = {} THEN None ELSE CHOOSE x \in S : \A y \in S : x <= y

\* the text nodes of an element's subtree, in document order; an h1's <small>
\* text follows the h1's own text
RECURSIVE SubtreeStrings(_, _, _)
SubtreeStrings(pg, n, d) ==
    IF d > Len(pg) THEN <<>>
    ELSE IF d = n \/ IsAncestor(pg, n, d)
         THEN <<pg[d].text>>
              \o (IF pg[d].hasSmall THEN <<pg[d].small>> ELSE <<>>)
              \o SubtreeStrings(pg, n, d + 1)
         ELSE <<>>

RECURSIVE StrippedNonEmpty(_)
StrippedNonEmpty(strs) ==
    IF strs = <<>> THEN <<>>
    ELSE (IF Strip(Head(strs)) # <<>> THEN <<Strip(Head(strs))>> ELSE <<>>)
         \o StrippedNonEmpty(Tail(strs))

\* paragraph.get_text(separator=' ', strip=True)
GetText(pg, n) == JoinSpace(StrippedNonEmpty(SubtreeStrings(pg, n, n)))

\* source_tag.get_text(strip=True), then .replace(label, '').strip()
SourceText(pg, h) == Strip(Replace(Strip(pg[h].small), SourceLabel))

(***************************************************************************)
(* Return values and the steps of scrape_punjabipedia_definitions          *)
(***************************************************************************)
\* the return value of line 142: a list of {"Source", "Definitions"} dicts
ListResult(entries) == [kind |-> "list", msg |-> "", entries |-> entries]

\* the message strings of lines 80, 145 and 147
StrResult(m) == [kind |-> "str", msg |-> m, entries |-> <<>>]

NoResult == [kind |-> "none", msg |-> "", entries |-> <<>>]

\* what the remote host may answer; requests.get returns a 3xx response that
\* it cannot follow (no Location header, 300, 304) to the caller
StatusCodes == {200, 300, 404}

\* response.raise_for_status(): HTTPError for 4xx and 5xx only
RaisesForStatus(st) == 400 <= st /\ st < 600

\* the secondary div tried before the primary one
MutLocateMainContent(pg) ==
    IF FindDiv(pg, "col-sm-12 main-box") # None
    THEN FindDiv(pg, "col-sm-12 main-box")
    ELSE IF FindDiv(pg, "col-sm-10") # None THEN FindDiv(pg, "col-sm-10")
         ELSE FindBody(pg)

\* lines 70-77: the primary div, else the secondary div, else the body
LocateMainContent(pg) ==
    IF FindDiv(pg, "col-sm-10") # None THEN FindDiv(pg, "col-sm-10")
    ELSE IF FindDiv(pg, "col-sm-12 main-box") # None
         THEN FindDiv(pg, "col-sm-12 main-box")
         ELSE FindBody(pg)

\* the loop condition of line 94
WhileContinues(pg, n) == n # None /\ pg[n].name \notin {"h1", "hr"}

\* lines 95-104: what one sibling adds to definition_paragraphs
Collected(pg, n) ==
    IF pg[n].name = "p"
    THEN IF FindAll(pg, n, "p") # <<>> THEN FindAll(pg, n, "p") ELSE <<n>>
    ELSE <<>>

\* a threshold of two characters instead of one
MutKeepCondition(t) == t # <<>> /\ Len(Strip(t)) > 2

\* the condition of line 132
KeepCondition(t) == t # <<>> /\ Len(Strip(t)) > 1

\* the source text left unchecked
MutEmitCondition(src, texts) == texts # <<>>

\* the condition of line 136
EmitCondition(src, texts) == src # <<>> /\ texts # <<>>

\* an empty list taken for an error: "if definitions:" and nothing else
MutRenderBranch(r) ==
    IF r.kind = "list" /\ r.entries # <<>> THEN "definitions" ELSE "error"

\* lines 177, 193, 197: the branch the caller renders
RenderBranch(r) ==
    IF r.kind = "list" /\ r.entries # <<>> THEN "definitions"
    ELSE IF r.kind = "list" /\ r.entries = <<>> THEN "warning"
    ELSE "error"

\* line 62: requests.get raises a RequestException or returns a response
Get ==
    /\ pc = "start"
    /\ \E st \in StatusCodes \cup {None} :
          IF st = None
          THEN /\ result' = StrResult("An error occurred while fetching the page")
               /\ pc' = "returned"
               /\ UNCHANGED status
          ELSE /\ status' = st
               /\ pc' = "raise_for_status"
               /\ UNCHANGED result
    /\ UNCHANGED <<word, page, main_content, definition_headers, hIdx,
                   current_element, definition_paragraphs, source_text,
                   definition_texts, pIdx, definition_text, final_definitions,
                   branch>>

\* line 63, and the handler of lines 144-145
RaiseForStatus ==
    /\ pc = "raise_for_status"
    /\ IF RaisesForStatus(status)
       THEN /\ result' = StrResult("An error occurred while fetching the page")
            /\ pc' = "returned"
       ELSE /\ pc' = "parse"
            /\ UNCHANGED result
    /\ UNCHANGED <<word, page, status, main_content, definition_headers, hIdx,
                   current_element, definition_paragraphs, source_text,
                   definition_texts, pIdx, definition_text, final_definitions,
                   branch>>

\* line 66: the parser builds the tree, or raises and lines 146-147 catch it
Parse ==
    /\ pc = "parse"
    /\ \E raised \in BOOLEAN :
          IF raised
          THEN /\ result' = StrResult("An unexpected error occurred")
               /\ pc' = "returned"
          ELSE /\ pc' = "locate"
               /\ UNCHANGED result
    /\ UNCHANGED <<word, page, status, main_content, definition_headers, hIdx,
                   current_element, definition_paragraphs, source_text,
                   definition_texts, pIdx, definition_text, final_definitions,
                   branch>>

\* lines 70-84
Locate ==
    /\ pc = "locate"
    /\ IF LocateMainContent(page) = None
       THEN /\ result' = StrResult("Could not find the main content container.")
            /\ pc' = "returned"
            /\ UNCHANGED <<main_content, definition_headers, hIdx>>
       ELSE /\ main_content' = LocateMainContent(page)
            /\ definition_headers' = FindAll(page, LocateMainContent(page), "h1")
            /\ hIdx' = 1
            /\ pc' = "for_h1"
            /\ UNCHANGED result
    /\ UNCHANGED <<word, page, status, current_element, definition_paragraphs,
                   source_text, definition_texts, pIdx, definition_text,
                   final_definitions, branch>>

\* lines 86-91: the next heading, or line 142 when there is none left
ForH1 ==
    /\ pc = "for_h1"
    /\ IF hIdx > Len(definition_headers)
       THEN /\ result' = ListResult(final_definitions)
            /\ pc' = "returned"
            /\ UNCHANGED <<definition_paragraphs, current_element>>
       ELSE /\ definition_paragraphs' = <<>>
            /\ current_element' = FindNextSibling(page, definition_headers[hIdx])
            /\ pc' = "while"
            /\ UNCHANGED result
    /\ UNCHANGED <<word, page, status, main_content, definition_headers, hIdx,
                   source_text, definition_texts, pIdx, definition_text,
                   final_definitions, branch>>

\* lines 94-105: one iteration of the sibling walk, or its end
While ==
    /\ pc = "while"
    /\ IF WhileContinues(page, current_element)
       THEN /\ definition_paragraphs' =
                   definition_paragraphs \o Collected(page, current_element)
            /\ current_element' = FindNextSibling(page, current_element)
            /\ pc' = "while"
       ELSE /\ pc' = "check"
            /\ UNCHANGED <<definition_paragraphs, current_element>>
    /\ UNCHANGED <<word, page, status, main_content, definition_headers, hIdx,
                   source_text, definition_texts, pIdx, definition_text,
                   final_definitions, result, branch>>

\* lines 108-115
CheckBlock ==
    /\ pc = "check"
    /\ IF page[definition_headers[hIdx]].hasSmall /\ definition_paragraphs # <<>>
       THEN /\ source_text' = SourceText(page, definition_headers[hIdx])
            /\ definition_texts' = <<>>
            /\ pIdx' = 1
            /\ pc' = "for_paragraph"
            /\ UNCHANGED hIdx
       ELSE /\ hIdx' = hIdx + 1
            /\ pc' = "for_h1"
            /\ UNCHANGED <<source_text, definition_texts, pIdx>>
    /\ UNCHANGED <<word, page, status, main_content, definition_headers,
                   current_element, definition_paragraphs, definition_text,
                   final_definitions, result, branch>>

\* line 118
ExtractText ==
    /\ pc = "for_paragraph"
    /\ pIdx <= Len(definition_paragraphs)
    /\ definition_text' = GetText(page, definition_paragraphs[pIdx])
    /\ pc' = "brackets"
    /\ UNCHANGED <<word, page, status, main_content, definition_headers, hIdx,
                   current_element, definition_paragraphs, source_text,
                   definition_texts, pIdx, final_definitions, result, branch>>

\* line 121
RemoveBrackets ==
    /\ pc = "brackets"
    /\ definition_text' = Strip(SubBrackets(definition_text))
    /\ pc' = "leading_word"
    /\ UNCHANGED <<word, page, status, main_content, definition_headers, hIdx,
                   current_element, definition_paragraphs, source_text,
                   definition_texts, pIdx, final_definitions, result, branch>>

\* lines 124-129
RemoveWord ==
    /\ pc = "leading_word"
    /\ definition_text' = Strip(SubLeadingWord(definition_text, word))
    /\ pc' = "keep"
    /\ UNCHANGED <<word, page, status, main_content, definition_headers, hIdx,
                   current_element, definition_paragraphs, source_text,
                   definition_texts, pIdx, final_definitions, result, branch>>

\* lines 132-133
KeepParagraph ==
    /\ pc = "keep"
    /\ definition_texts' = IF KeepCondition(definition_text)
                           THEN Append(definition_texts, definition_text)
                           ELSE definition_texts
    /\ pIdx' = pIdx + 1
    /\ pc' = "for_paragraph"
    /\ UNCHANGED <<word, page, status, main_content, definition_headers, hIdx,
                   current_element, definition_paragraphs, source_text,
                   definition_text, final_definitions, result, branch>>

\* lines 136-140, after the last paragraph of the block
EmitEntry ==
    /\ pc = "for_paragraph"
    /\ pIdx > Len(definition_paragraphs)
    /\ final_definitions' =
          IF EmitCondition(source_text, definition_texts)
          THEN Append(final_definitions,
                      [Source |-> source_text, Definitions |-> definition_texts])
          ELSE final_definitions
    /\ hIdx' = hIdx + 1
    /\ pc' = "for_h1"
    /\ UNCHANGED <<word, page, status, main_content, definition_headers,
                   current_element, definition_paragraphs, source_text,
                   definition_texts, pIdx, definition_text, result, branch>>

\* lines 177-200: the caller renders the returned value
Render ==
    /\ pc = "returned"
    /\ branch' = RenderBranch(result)
    /\ pc' = "rendered"
    /\ UNCHANGED <<word, page, status, main_content, definition_headers, hIdx,
                   current_element, definition_paragraphs, source_text,
                   definition_texts, pIdx, definition_text, final_definitions,
                   result>>

Next ==
    \/ Get
    \/ RaiseForStatus
    \/ Parse
    \/ Locate
    \/ ForH1
    \/ While
    \/ CheckBlock
    \/ ExtractText
    \/ RemoveBrackets
    \/ RemoveWord
    \/ KeepParagraph
    \/ EmitEntry
    \/ Render

(***************************************************************************)
(* Documents the remote host may return                                    *)
(***************************************************************************)
KDiv(c) == [name |-> "div", cls |-> c, hasSmall |-> FALSE, small |-> <<>>, text |-> <<>>]

KBody == [name |-> "body", cls |-> "", hasSmall |-> FALSE, small |-> <<>>, text |-> <<>>]

KHr == [name |-> "hr", cls |-> "", hasSmall |-> FALSE, small |-> <<>>, text |-> <<>>]

KH1(has, sm) == [name |-> "h1", cls |-> "", hasSmall |-> has, small |-> sm, text |-> <<"h">>]

KP(t) == [name |-> "p", cls |-> "", hasSmall |-> FALSE, small |-> <<>>, text |-> t]

\* the parent vectors of the documents of n elements in document order: an
\* element hangs at the top (0) or under the element before it or one of that
\* element's ancestors
RECURSIVE IsAncestorIn(_, _, _)
IsAncestorIn(f, a, d) ==
    /\ d # 0
    /\ f[d] # 0
    /\ (f[d] = a \/ IsAncestorIn(f, a, f[d]))

TreeShapes(n) ==
    {f \in [1..n -> 0..n] :
        \A i \in 1..n :
            /\ f[i] < i
            /\ f[i] = 0 \/ f[i] = i - 1 \/ IsAncestorIn(f, f[i], i - 1)}

\* only the elements named in nest have child elements
WellNested(pg, nest) ==
    \A i \in 1..Len(pg) :
        pg[i].parent # None => pg[pg[i].parent].name \in nest

\* a document of the elements ks hanging as f says
Document(ks, f) == [i \in 1..Len(ks) |-> MkNode(ks[i], f[i])]

\* a document of one root element with the elements ks inside it
RootedDocument(root, ks, f) ==
    <<MkNode(root, None)>> \o [i \in 1..Len(ks) |-> MkNode(ks[i], f[i] + 1)]

RECURSIVE StringsUpTo(_, _)
StringsUpTo(alphabet, n) ==
    IF n = 0 THEN {<<>>}
    ELSE LET shorter == StringsUpTo(alphabet, n - 1)
         IN  shorter \cup {Append(s, c) : s \in shorter, c \in alphabet}

InitControl ==
    /\ pc = "start"
    /\ status = None
    /\ main_content = None
    /\ definition_headers = <<>>
    /\ hIdx = 0
    /\ current_element = None
    /\ definition_paragraphs = <<>>
    /\ source_text = <<>>
    /\ definition_texts = <<>>
    /\ pIdx = 0
    /\ definition_text = <<>>
    /\ final_definitions = <<>>
    /\ result = NoResult
    /\ branch = "none"

\* the state in which line 116 starts on a page of one heading block with one
\* paragraph: the response was 200, the block was found and walked
InitAtParagraph(w, t) ==
    /\ word = w
    /\ page = <<MkNode(KDiv("col-sm-10"), None),
                MkNode(KH1(TRUE, <<"s">>), 1),
                MkNode(KP(t), 1)>>
    /\ pc = "for_paragraph"
    /\ status = 200
    /\ main_content = 1
    /\ definition_headers = <<2>>
    /\ hIdx = 1
    /\ current_element = None
    /\ definition_paragraphs = <<3>>
    /\ source_text = <<"s">>
    /\ definition_texts = <<>>
    /\ pIdx = 1
    /\ definition_text = <<>>
    /\ final_definitions = <<>>
    /\ result = NoResult
    /\ branch = "none"

\* lines 116-140 alone
CleanNext ==
    \/ ExtractText
    \/ RemoveBrackets
    \/ RemoveWord
    \/ KeepParagraph
    \/ EmitEntry

\* -- Spec: heading blocks in one content region ---------------------------
MaxContent == 4

Words == {<<>>, <<" ">>, <<"a", "b">>}

Smalls == {<<"L", " ", ":">>, <<"L", " ", ":", " ", "s">>}

ParagraphTexts == {<<" ", "c", "d">>, <<"x">>, <<"[", "x", "]", "a", "b", ":", "e">>}

ContentKinds ==
    {KH1(FALSE, <<>>)} \cup {KH1(TRUE, sm) : sm \in Smalls}
    \cup {KP(t) : t \in ParagraphTexts} \cup {KHr}

\* no document at all, or the primary container with sibling elements in it
Init ==
    /\ word \in Words
    /\ \/ page = <<>>
       \/ \E n \in 0..MaxContent :
             \E ks \in [1..n -> ContentKinds] :
                page = RootedDocument(KDiv("col-sm-10"), ks, [i \in 1..n |-> 0])
    /\ InitControl

Spec == Init /\ [][Next]_vars

\* -- SpecContainer: documents that differ in their containers -------------
MaxNodes == 4

ContainerWords == {<<>>, <<" ">>}

ContainerKinds ==
    {KBody, KDiv("col-sm-10"), KDiv("col-sm-12 main-box"),
     KH1(TRUE, <<"L", " ", ":", " ", "s">>), KP(<<"c", "d">>)}

InitContainer ==
    /\ word \in ContainerWords
    /\ \E n \in 0..MaxNodes :
          \E f \in TreeShapes(n) :
             \E ks \in [1..n -> ContainerKinds] :
                /\ WellNested(Document(ks, f), {"body", "div"})
                /\ page = Document(ks, f)
    /\ InitControl

SpecContainer == InitContainer /\ [][Next]_vars

\* -- SpecNested: paragraphs that nest (unclosed <p> tags) ------------------
MaxNested == 4

NestedKinds == {KH1(TRUE, <<"s">>), KP(<<"c", "d">>), KHr}

InitNested ==
    /\ word = <<"z", "z">>
    /\ \/ page = <<>>
       \/ \E n \in 0..MaxNested :
             \E f \in TreeShapes(n) :
                \E ks \in [1..n -> NestedKinds] :
                   /\ WellNested(RootedDocument(KDiv("col-sm-10"), ks, f), {"div", "p"})
                   /\ page = RootedDocument(KDiv("col-sm-10"), ks, f)
    /\ InitControl

SpecNested == InitNested /\ [][Next]_vars

\* -- SpecBrackets: the cleaning of one paragraph with bracketed spans ------
MaxBracketLen == 7

BracketAlphabet == {"a", " ", "[", "]"}

InitBrackets ==
    \E t \in StringsUpTo(BracketAlphabet, MaxBracketLen) :
        InitAtParagraph(<<"z", "z">>, t)

SpecBrackets == InitBrackets /\ [][CleanNext]_vars

\* -- SpecWord: the cleaning of one paragraph that may start with the word --
MaxWordLen == 4

WordAlphabet == {"a", "A", "b", " ", ".", ":"}

QueryWords == {<<"a">>, <<"A", "b">>, <<"b", "a">>}

InitWord ==
    \E t \in StringsUpTo(WordAlphabet, MaxWordLen) :
        \E w \in QueryWords : InitAtParagraph(w, t)

SpecWord == InitWord /\ [][CleanNext]_vars

(***************************************************************************)
(* Properties                                                              *)
(***************************************************************************)
Range(q) == {q[i] : i \in 1..Len(q)}

\* the paragraph siblings that follow heading h and precede the first heading
\* or section break among the siblings after h
BlockParagraphs(pg, h) ==
    SortedSeq({j \in (h + 1)..Len(pg) :
                 /\ pg[j].parent = pg[h].parent
                 /\ pg[j].name = "p"
                 /\ \A k \in (h + 1)..(j - 1) :
                       pg[k].parent = pg[h].parent => pg[k].name \notin {"h1", "hr"}})

\* the paragraph elements of h's block, nested ones included
BlockParagraphElements(pg, h) ==
    {j \in 1..Len(pg) :
        /\ pg[j].name = "p"
        /\ \E w \in Range(BlockParagraphs(pg, h)) : j = w \/ IsAncestor(pg, w, j)}

\* lines 118-129 on one paragraph element
CleanedText(pg, n, w) ==
    Strip(SubLeadingWord(Strip(SubBrackets(GetText(pg, n))), w))

\* a heading with an attribution element and a paragraph that cleans to more
\* than one character
Qualifies(pg, h, w) ==
    /\ pg[h].hasSmall
    /\ \E j \in BlockParagraphElements(pg, h) : Len(CleanedText(pg, j, w)) > 1

\* the headings whose block the loop of line 86 has finished
Processed == IF hIdx = 0 THEN 0 ELSE hIdx - 1

Returned == pc \in {"returned", "rendered"}

\* C1: every entry has a non-empty source and a non-empty list of paragraphs
\* that are each longer than one character after cleaning; no more entries
\* exist than finished headings that have an attribution element and a
\* paragraph that cleans to more than one character.
ThmC1 ==
    /\ \A i \in 1..Len(final_definitions) :
          /\ final_definitions[i].Source # <<>>
          /\ final_definitions[i].Definitions # <<>>
          /\ \A k \in 1..Len(final_definitions[i].Definitions) :
                /\ Len(final_definitions[i].Definitions[k]) > 1
                /\ Strip(final_definitions[i].Definitions[k])
                      = final_definitions[i].Definitions[k]
    /\ Len(final_definitions)
          <= Cardinality({i \in 1..Processed :
                             Qualifies(page, definition_headers[i], word)})
    /\ Returned /\ result.kind = "list" => result.entries = final_definitions

\* a returned list of one entry, from a page with a second heading that has
\* paragraphs and yet no entry: it has no attribution element, or only
\* paragraphs that clean to one character or less
WitC1 ==
    /\ pc = "returned"
    /\ result.kind = "list"
    /\ Len(result.entries) = 1
    /\ \E i \in 1..Len(definition_headers) :
          /\ BlockParagraphs(page, definition_headers[i]) # <<>>
          /\ ~Qualifies(page, definition_headers[i], word)

\* C2: a transport failure or a status outside 2xx ends in a returned message,
\* and every call ends with a list or a message.
ClaimC2 ==
    Returned =>
        /\ result.kind \in {"list", "str"}
        /\ (status = None \/ status < 200 \/ status >= 300) => result.kind = "str"

\* C3: once a content region was found the call returns a list, which is empty
\* when no heading of the region qualifies (in particular with no heading at
\* all), and the caller renders the empty list on the warning branch, which it
\* takes for nothing else.
ThmC3 ==
    /\ Returned /\ main_content # None =>
          /\ result.kind = "list"
          /\ (\A i \in 1..Len(definition_headers) :
                 ~Qualifies(page, definition_headers[i], word))
             => result.entries = <<>>
    /\ pc = "rendered" =>
          /\ branch = "warning" <=> (result.kind = "list" /\ result.entries = <<>>)
          /\ branch = "definitions" <=> (result.kind = "list" /\ result.entries # <<>>)
          /\ branch = "error" <=> result.kind = "str"

\* a region without headings, rendered as a warning
WitC3 ==
    /\ pc = "rendered"
    /\ main_content # None
    /\ definition_headers = <<>>
    /\ Len(page) > 1
    /\ result = ListResult(<<>>)
    /\ branch = "warning"

\* C4: with an empty or whitespace-only word the call returns a message or an
\* empty list.
ClaimC4 ==
    Returned /\ Strip(word) = <<>> =>
        result.kind = "str" \/ (result.kind = "list" /\ result.entries = <<>>)

\* the first element of a kind, None when there is none
FirstOf(S) == IF S = {} THEN None ELSE CHOOSE x \in S : \A y \in S : x <= y

PrimaryDivs == {d \in 1..Len(page) : page[d].name = "div" /\ page[d].cls = "col-sm-10"}

SecondaryDivs ==
    {d \in 1..Len(page) : page[d].name = "div" /\ page[d].cls = "col-sm-12 main-box"}

Bodies == {d \in 1..Len(page) : page[d].name = "body"}

\* the region the priority order selects
Region ==
    IF PrimaryDivs # {} THEN FirstOf(PrimaryDivs)
    ELSE IF SecondaryDivs # {} THEN FirstOf(SecondaryDivs)
    ELSE FirstOf(Bodies)

HeadingsOf(n) == {d \in 1..Len(page) : page[d].name = "h1" /\ IsAncestor(page, n, d)}

\* C5: the region is the primary div when there is one, else the secondary div,
\* else the body; the container message is returned only when there is none of
\* the three; the headings walked, and the entries returned, are those of the
\* headings inside the selected region.
ThmC5 ==
    /\ main_content # None =>
          /\ main_content = Region
          /\ Range(definition_headers) = HeadingsOf(Region)
    /\ pc \in {"for_h1", "while", "check", "for_paragraph", "brackets",
               "leading_word", "keep"} => main_content # None
    /\ Returned /\ result.kind = "list" =>
          /\ main_content # None
          /\ Len(result.entries)
                = Cardinality({h \in HeadingsOf(Region) : Qualifies(page, h, word)})
    /\ Returned /\ result.kind = "str" =>
          (result.msg = "Could not find the main content container."
              <=> (status # None /\ ~RaisesForStatus(status)
                     /\ result.msg # "An unexpected error occurred"
                     /\ PrimaryDivs = {} /\ SecondaryDivs = {} /\ Bodies = {}))

\* no primary div; the secondary div is selected although a body is present,
\* and the heading inside it yields the entry
WitC5 ==
    /\ pc = "returned"
    /\ PrimaryDivs = {}
    /\ SecondaryDivs # {}
    /\ Bodies # {}
    /\ main_content = FirstOf(SecondaryDivs)
    /\ Len(result.entries) = 1

NoBracketSpan(t) == \A i \in 1..Len(t) : \A j \in (i + 1)..Len(t) : ~(t[i] = "[" /\ t[j] = "]")

\* every heading of the region has an attribution element and a block of
\* paragraphs that are not nested, hold no bracketed span and do not start
\* with the queried word
PlainPage ==
    /\ main_content # None
    /\ \A i \in 1..Len(definition_headers) :
          LET h == definition_headers[i]
          IN  /\ page[h].hasSmall
              /\ BlockParagraphs(page, h) # <<>>
              /\ \A j \in Range(BlockParagraphs(page, h)) :
                    /\ ~\E d \in 1..Len(page) : IsAncestor(page, j, d)
                    /\ NoBracketSpan(page[j].text)
                    /\ ~StartsWithCI(Strip(page[j].text), word)

\* one entry per heading, in page order: the attribution text trimmed, the
\* label taken out, trimmed again; the paragraphs' trimmed texts in order
PlainEntries ==
    [i \in 1..Len(definition_headers) |->
        LET h == definition_headers[i]
            bp == BlockParagraphs(page, h)
        IN  [Source |-> Strip(Replace(Strip(page[h].small), SourceLabel)),
             Definitions |-> [k \in 1..Len(bp) |-> Strip(page[bp[k]].text)]]]

NonTrivialPage ==
    \A i \in 1..Len(definition_headers) :
        /\ PlainEntries[i].Source # <<>>
        /\ \A k \in 1..Len(PlainEntries[i].Definitions) :
              Len(PlainEntries[i].Definitions[k]) > 1

BeforeWord == Strip(SubBrackets(GetText(page, definition_paragraphs[pIdx])))

\* the letters of the texts
Letters == {"a", "b", "A", "B", "c", "d", "e", "h", "s", "x", "z"}

\* the text starts with the word (any case) and the word ends there: the text
\* ends, or a character that is no letter follows
LeadingToken(t, w) ==
    /\ StartsWithCI(t, w)
    /\ Len(t) = Len(w) \/ t[Len(w) + 1] \notin Letters

\* C7: the step removes the leading word, the whitespace after it and at most
\* one separator, and trims, when the text starts with the word as a whole
\* token; any other text is left unchanged.
ClaimC7 ==
    pc = "keep" /\ word # <<>> =>
        IF LeadingToken(BeforeWord, word)
        THEN LET rest == LStrip(SubSeq(BeforeWord, Len(word) + 1, Len(BeforeWord)))
             IN  definition_text
                   = Strip(IF rest # <<>> /\ Head(rest) \in Separators
                           THEN Tail(rest) ELSE rest)
        ELSE definition_text = BeforeWord

IsWord(t) == t # <<>> /\ \A i \in 1..Len(t) : t[i] \in Letters

\* C8: the cleaned text holds no bracketed span, and a text of the form
\* 'A [x] B' (words A and B, one space on each side of the span) is cleaned
\* to 'A B'.
ClaimC8 ==
    pc = "keep" =>
        LET raw == GetText(page, definition_paragraphs[pIdx])
        IN  /\ NoBracketSpan(definition_text)
            /\ \A i \in 1..Len(raw) : \A j \in (i + 2)..(Len(raw) - 1) :
                  ( /\ IsWord(SubSeq(raw, 1, i - 1))
                    /\ raw[i] = " "
                    /\ raw[i + 1] = "["
                    /\ raw[j] = "]"
                    /\ \A k \in (i + 2)..(j - 1) : raw[k] \notin {"[", "]"}
                    /\ raw[j + 1] = " "
                    /\ IsWord(SubSeq(raw, j + 2, Len(raw))) )
                  => definition_text
                        = SubSeq(raw, 1, i - 1) \o <<" ">> \o SubSeq(raw, j + 2, Len(raw))

\* C9: after the walk, no collected sibling that wraps paragraphs is a
\* candidate, every paragraph nested in a collected sibling is one, the
\* candidates are in document order, and no candidate lies inside another (its
\* text would be extracted twice).
ClaimC9 ==
    pc = "check" =>
        LET h == definition_headers[hIdx]
            dp == definition_paragraphs
        IN  /\ \A i \in 1..Len(dp) :
                  ~(page[dp[i]].parent = page[h].parent
                      /\ FindAll(page, dp[i], "p") # <<>>)
            /\ \A w \in Range(BlockParagraphs(page, h)) :
                  Range(FindAll(page, w, "p")) \subseteq Range(dp)
            /\ \A i \in 1..Len(dp) : \A j \in 1..Len(dp) : i < j => dp[i] < dp[j]
            /\ \A i \in 1..Len(dp) : \A j \in 1..Len(dp) :
                  ~IsAncestor(page, dp[i], dp[j])

\* a section break precedes c among its siblings with no heading in between
AfterBreak(pg, c) ==
    \E k \in 1..(c - 1) :
        /\ pg[k].parent = pg[c].parent
        /\ pg[k].name = "hr"
        /\ \A m \in (k + 1)..(c - 1) : pg[m].parent = pg[c].parent => pg[m].name # "h1"

\* C10: after the walk of heading h the candidates come from exactly the
\* paragraph siblings of h's block; no candidate is a paragraph of another
\* heading's block, and none follows a section break with no heading in between.
ClaimC10 ==
    pc = "check" =>
        LET h == definition_headers[hIdx]
            dp == definition_paragraphs
            bp == Range(BlockParagraphs(page, h))
        IN  /\ \A c \in Range(dp) : \E w \in bp : c = w \/ IsAncestor(page, w, c)
            /\ \A w \in bp : \E c \in Range(dp) : c = w \/ IsAncestor(page, w, c)
            /\ \A c \in Range(dp) :
                  \A g \in Range(definition_headers) :
                      g # h => c \notin Range(BlockParagraphs(page, g))
            /\ \A c \in Range(dp) : ~AfterBreak(page, c)

====
